---- MODULE Spec2Model ----
(***************************************************************************)
(* Smudge: SWIM-style membership.  One endpoint (thisHost) is modelled     *)
(* with its registry, updated set, dead-node retry table, pending-ack      *)
(* table, failure-detector loop (Begin), timeout checker and datagram      *)
(* handlers.  The rest of the cluster is the environment: it delivers      *)
(* datagrams drawn from bounded sets and lets pending acks time out.       *)
(***************************************************************************)
EXTENDS Integers, Sequences, FiniteSets, TLC

(***************************************************************************)
(* Bounds of the exploration.                                              *)
(***************************************************************************)
\* addresses 1..NumAddr exist; 1 is this host
NumAddr == 6
\* highest heartbeat a received datagram or member record carries
MaxMsgHB == 2
\* cap on currentHeartbeat reached by the failure detector's increments
MaxHB == 12
\* cap on the number of pending-ack entries held at once
MaxPending == 4
\* lowest emit counter explored (sends that would go below are not taken)
MinEmitMagnitude == 8

(***************************************************************************)
(* Program constants.                                                      *)
(***************************************************************************)
maxDeadNodeRetries == 10

thisHost == 1
Addr == 1..NumAddr
Peers == Addr \ {thisHost}
\* a nil *Node
NoNode == 0

StatusUnknown == "Unknown"
StatusAlive == "Alive"
StatusDead == "Dead"
StatusForwardTo == "ForwardTo"
NodeStatus == {StatusUnknown, StatusAlive, StatusDead, StatusForwardTo}

verbPing == "Ping"
verbAck == "Ack"
verbPingRequest == "PingRequest"
verbNonForwardingPing == "NonForwardingPing"
messageVerb == {verbPing, verbAck, verbPingRequest, verbNonForwardingPing}

packPing == "PING"
packPingReq == "PINGREQ"
packNFP == "NFP"

PingNoData == "NoData"
PingTimedOut == "TimedOut"
\* a measured round trip (the elapsed milliseconds are not tracked)
PingMeasured == "Measured"

VARIABLES
    knownNodes,              \* addresses in the registry
    nodes,                   \* the Node object of every address
    updatedNodes,            \* addresses in the recently-updated set
    deadNodeRetries,         \* address -> [retry, retryCountdown]
    pendingAcks,             \* <<address, code>> -> pendingAck
    currentHeartbeat,
    knownNodesModifiedFlag,
    runningFlag,
    pingdata,                \* samples the step just taken fed to the RTT estimator
    forwards,                \* spawned doForwardOnTimeout goroutines (targets)
    pc,                      \* position of the Begin loop
    randomAllNodes,          \* nodes of the round's snapshot not yet visited
    pingCounter,
    panicked,                \* a goroutine panicked: the process is gone
    last,                    \* the step just taken
    sent,                    \* datagrams written by the step just taken
    notified,                \* doStatusUpdate calls of the step just taken
    probes,                  \* history: the indirect probes still pending
    delivered,               \* history: datagrams read from a budgeted socket
    checker,                 \* position of startTimeoutCheckLoop
    loaded,                  \* Begin: the currentHeartbeat read by "currentHeartbeat++"
    acking                   \* key -> receiveVerbAckUDP calls between RUnlock and Lock

vars == <<knownNodes, nodes, updatedNodes, deadNodeRetries, pendingAcks,
          currentHeartbeat, knownNodesModifiedFlag, runningFlag, pingdata,
          forwards, pc, randomAllNodes, pingCounter, panicked, last, sent,
          notified, probes, delivered, checker, loaded, acking>>

(***************************************************************************)
(* Helpers.                                                                *)
(***************************************************************************)
Drop(f, x) == [y \in DOMAIN f \ {x} |-> f[y]]

Put(f, x, v) == [y \in DOMAIN f \cup {x} |-> IF y = x THEN v ELSE f[y]]

RECURSIVE Perms(_)
Perms(S) ==
    IF S = {} THEN {<<>>}
    ELSE UNION {{<<x>> \o p : p \in Perms(S \ {x})} : x \in S}

SeqToSet(s) == {s[i] : i \in DOMAIN s}

\* floor(2.5 * ln(n) + 0.5) for n = 1..12
LambdaLog == <<0, 2, 3, 3, 4, 4, 5, 5, 5, 6, 6, 6>>


(***************************************************************************)
(* The shared state as one record, so that the sequential code of a        *)
(* handler is a composition of operators.  An operator whose code makes a  *)
(* random choice returns the set of states it can produce.                 *)
(***************************************************************************)
Cur ==
    [knownNodes |-> knownNodes, nodes |-> nodes, updatedNodes |-> updatedNodes,
     deadNodeRetries |-> deadNodeRetries, pendingAcks |-> pendingAcks,
     currentHeartbeat |-> currentHeartbeat,
     knownNodesModifiedFlag |-> knownNodesModifiedFlag, pingdata |-> 0,
     forwards |-> forwards, panicked |-> panicked,
     sent |-> <<>>, notified |-> <<>>]

\* CreateNodeByIP
FreshNode ==
    [status |-> StatusUnknown, heartbeat |-> 0, emitCounter |-> 0,
     pingMillis |-> PingNoData]

\* emitCount() and pingRequestCount(): int(lambda*ln(N) + 0.5); N = 0 only at
\* startup, where the conversion of -Inf leaves 0 in the int8 counter
emitCountOf(n) == IF n = 0 THEN 0 ELSE LambdaLog[n]

emitCount(st) == emitCountOf(Cardinality(st.knownNodes))

pingRequestCount(st) == emitCountOf(Cardinality(st.knownNodes))

\* mutant: the "node.status != status" test is gone
updateNodeStatus_always(st, a, status, heartbeat) ==
    [st EXCEPT
        !.nodes[a] = [@ EXCEPT !.status = status,
                               !.emitCounter = emitCount(st),
                               !.heartbeat = heartbeat],
        !.updatedNodes = @ \cup {a},
        !.deadNodeRetries = IF status # StatusDead THEN Drop(@, a) ELSE @,
        !.notified = Append(@, <<a, status>>)]

updateNodeStatus(st, a, status, heartbeat) ==
    IF st.nodes[a].status = status THEN st
    ELSE [st EXCEPT
            !.nodes[a] = [@ EXCEPT !.status = status,
                                   !.emitCounter = emitCount(st),
                                   !.heartbeat = heartbeat],
            !.updatedNodes = @ \cup {a},
            !.deadNodeRetries = IF status # StatusDead THEN Drop(@, a) ELSE @,
            !.notified = Append(@, <<a, status>>)]

\* the exported UpdateNodeStatus
UpdateNodeStatus(st, a, status) ==
    updateNodeStatus(st, a, status, st.nodes[a].heartbeat)

\* mutant: the registry grows without "knownNodesModifiedFlag = true"
AddNode_keepsFlag(st, a) ==
    IF a \in st.knownNodes THEN st
    ELSE IF st.nodes[a].status = StatusForwardTo
         THEN [st EXCEPT !.panicked = TRUE]
         ELSE LET s1 == IF st.nodes[a].status = StatusUnknown
                        THEN UpdateNodeStatus(st, a, StatusAlive)
                        ELSE st
              IN  [s1 EXCEPT !.knownNodes = @ \cup {a}]

\* mutant: every call refreshes the node as a new Alive one
AddNode_refreshes(st, a) ==
    LET s1 == updateNodeStatus_always(st, a, StatusAlive,
                                      st.nodes[a].heartbeat)
    IN  [s1 EXCEPT !.knownNodes = @ \cup {a},
                   !.knownNodesModifiedFlag = TRUE]

AddNode(st, a) ==
    IF a \in st.knownNodes THEN st
    ELSE IF st.nodes[a].status = StatusForwardTo
         THEN [st EXCEPT !.panicked = TRUE]
         ELSE LET s1 == IF st.nodes[a].status = StatusUnknown
                        THEN UpdateNodeStatus(st, a, StatusAlive)
                        ELSE st
              IN  [s1 EXCEPT !.knownNodes = @ \cup {a},
                             !.knownNodesModifiedFlag = TRUE]

RemoveNode(st, a) ==
    IF a \in st.knownNodes
    THEN [st EXCEPT !.knownNodes = @ \ {a}, !.knownNodesModifiedFlag = TRUE]
    ELSE st

Min(x, y) == IF x < y THEN x ELSE y

\* nodeMap.getRandomNodes(size, exclude...): the sets it can return
getRandomNodes(st, size, exclude) ==
    LET cands == st.knownNodes \ exclude
        n == IF size = 0 THEN Cardinality(cands)
             ELSE Min(size, Cardinality(cands))
    IN  {S \in SUBSET cands : Cardinality(S) = n}

\* mutant: nothing is pruned
pruneUpdated_keepsAll(st) == st

\* the pruning loop of getRandomUpdatedNodes
pruneUpdated(st) ==
    [st EXCEPT !.updatedNodes = {a \in @ : st.nodes[a].emitCounter > 0}]

\* getRandomUpdatedNodes(size, exclude...) after the pruning: the top `size`
\* by emit counter (the sort leaves the order of equal counters open)
getRandomUpdatedNodes(st, size, exclude) ==
    LET cands == st.updatedNodes \ exclude
        n == Min(size, Cardinality(cands))
    IN  {S \in SUBSET cands :
            /\ Cardinality(S) = n
            /\ \A a \in S, b \in cands \ S :
                  st.nodes[a].emitCounter >= st.nodes[b].emitCounter}

\* the slice of the selected nodes, highest emit counter first
RECURSIVE byNodeEmitCounter(_, _)
byNodeEmitCounter(st, S) ==
    IF S = {} THEN <<>>
    ELSE LET top == CHOOSE a \in S :
                       \A b \in S :
                          \/ st.nodes[a].emitCounter > st.nodes[b].emitCounter
                          \/ /\ st.nodes[a].emitCounter = st.nodes[b].emitCounter
                             /\ a <= b
         IN  <<top>> \o byNodeEmitCounter(st, S \ {top})

messageMember(st, a) ==
    [node |-> a, status |-> st.nodes[a].status,
     heartbeat |-> st.nodes[a].heartbeat]

RECURSIVE decrementEmit(_, _)
decrementEmit(ns, s) ==
    IF s = <<>> THEN ns
    ELSE decrementEmit([ns EXCEPT ![Head(s)].emitCounter = @ - 1], Tail(s))

\* transmitVerbGenericUDP with `sel` the nodes picked for piggybacking
transmitWith(st, node, forwardTo, verb, code, sel) ==
    LET picked == byNodeEmitCounter(st, sel)
        fwd == IF forwardTo # NoNode
               THEN <<[node |-> forwardTo, status |-> StatusForwardTo,
                       heartbeat |-> code]>>
               ELSE <<>>
        members == fwd \o [i \in DOMAIN picked |-> messageMember(st, picked[i])]
        \* n.emitCounter-- while attaching, m.node.emitCounter-- after the write
        ns1 == decrementEmit(st.nodes, picked)
        ns2 == decrementEmit(ns1, [i \in DOMAIN members |-> members[i].node])
    IN  [st EXCEPT
            !.nodes = ns2,
            !.sent = Append(@, [verb |-> verb, to |-> node, code |-> code,
                                members |-> members,
                                k |-> pingRequestCount(st)])]

\* transmitVerbGenericUDP (the socket calls are taken to succeed, no
\* broadcast is queued)
transmitVerbGenericUDP(st, node, forwardTo, verb, code) ==
    LET s1 == pruneUpdated(st)
        upd == getRandomUpdatedNodes(s1, pingRequestCount(s1), {node, thisHost})
        sels == IF upd = {{}}
                THEN getRandomNodes(s1, pingRequestCount(s1), {node, thisHost})
                ELSE upd
    IN  {transmitWith(s1, node, forwardTo, verb, code, sel) : sel \in sels}

newPendingAck(node, callback, callbackCode, packType) ==
    [node |-> node, callback |-> callback, callbackCode |-> callbackCode,
     packType |-> packType]

transmitVerbForwardUDP(st, node, downstream, code) ==
    transmitVerbGenericUDP(
        [st EXCEPT !.pendingAcks =
            Put(@, <<node, code>>, newPendingAck(node, downstream, 0, packPingReq))],
        node, downstream, verbPingRequest, code)

transmitVerbAckUDP(st, node, code) ==
    transmitVerbGenericUDP(st, node, NoNode, verbAck, code)

transmitVerbPingUDP(st, node, code) ==
    transmitVerbGenericUDP(
        [st EXCEPT !.pendingAcks =
            Put(@, <<node, code>>, newPendingAck(node, NoNode, 0, packPing))],
        node, NoNode, verbPing, code)

(***************************************************************************)
(* Datagram handlers.  A message is [verb, sender, senderHeartbeat,        *)
(* members], a member record [node, status, heartbeat].                    *)
(***************************************************************************)
\* decodeMessage resolves the sender and every member against the registry
\* and creates a new Node for an address the registry does not hold
decodeMessage(st, msg) ==
    LET named == {msg.sender} \cup {msg.members[i].node : i \in DOMAIN msg.members}
    IN  [st EXCEPT !.nodes = [a \in Addr |->
            IF a \in named /\ a \notin st.knownNodes THEN FreshNode ELSE @[a]]]

\* "Synchronize heartbeats" in receiveMessageUDP
synchronizeHeartbeat(st, msg) ==
    IF msg.senderHeartbeat > 0 /\ msg.senderHeartbeat - 1 > st.currentHeartbeat
    THEN [st EXCEPT !.currentHeartbeat = msg.senderHeartbeat - 1]
    ELSE st

\* mutant: a ForwardTo record is merged like any other
mergeMember_admitsForwardTo(st, m) ==
    IF st.panicked THEN st
    ELSE IF m.heartbeat < st.nodes[m.node].heartbeat THEN st
    ELSE IF m.status = StatusDead /\ m.node = thisHost THEN st
    ELSE AddNode(updateNodeStatus(st, m.node, m.status, m.heartbeat), m.node)

\* mutant: the "message is old" test is gone
mergeMember_keepsStale(st, m) ==
    IF st.panicked THEN st
    ELSE IF m.status = StatusForwardTo THEN st
    ELSE IF m.status = StatusDead /\ m.node = thisHost THEN st
    ELSE AddNode(updateNodeStatus(st, m.node, m.status, m.heartbeat), m.node)

\* the body of the member loop of updateStatusesFromMessage
mergeMember(st, m) ==
    IF st.panicked THEN st
    ELSE IF m.heartbeat < st.nodes[m.node].heartbeat THEN st
    ELSE IF m.status = StatusForwardTo THEN st
    ELSE IF m.status = StatusDead /\ m.node = thisHost THEN st
    ELSE AddNode(updateNodeStatus(st, m.node, m.status, m.heartbeat), m.node)

\* the sender part of updateStatusesFromMessage
markSender(st, msg) ==
    IF st.panicked THEN st
    ELSE LET s1 == IF msg.senderHeartbeat > st.nodes[msg.sender].heartbeat
                   THEN updateNodeStatus(st, msg.sender, StatusAlive,
                                         msg.senderHeartbeat)
                   ELSE st
         IN  IF msg.sender \notin s1.knownNodes THEN AddNode(s1, msg.sender)
             ELSE s1

RECURSIVE mergeMembers(_, _)
\* the member loop of updateStatusesFromMessage
mergeMembers(st, members) ==
    IF members = <<>> THEN st
    ELSE mergeMembers(mergeMember(st, Head(members)), Tail(members))

updateStatusesFromMessage(st, msg) ==
    markSender(mergeMembers(st, msg.members), msg)

notePingResponseTime(st, pack) ==
    [st EXCEPT !.nodes[pack.node].pingMillis = PingMeasured,
               !.pingdata = @ + 1]

\* mutant: the entry is resolved but never deleted
receiveVerbAckUDP_keepsEntry(st, msg) ==
    LET key == <<msg.sender, msg.senderHeartbeat>>
    IN  IF key \in DOMAIN st.pendingAcks
        THEN LET pack == st.pendingAcks[key]
             IN  IF pack.callback # NoNode
                 THEN transmitVerbAckUDP(st, pack.callback, pack.callbackCode)
                 ELSE {notePingResponseTime(st, pack)}
        ELSE {st}

\* mutant: the key leaves the heartbeat out, any entry of the sender matches
receiveVerbAckUDP_keyedBySender(st, msg) ==
    LET mine == {k \in DOMAIN st.pendingAcks : k[1] = msg.sender}
    IN  IF mine # {}
        THEN LET pack == st.pendingAcks[CHOOSE k \in mine : TRUE]
                 done == IF pack.callback # NoNode
                         THEN transmitVerbAckUDP(st, pack.callback,
                                                 pack.callbackCode)
                         ELSE {notePingResponseTime(st, pack)}
             IN  {[s EXCEPT !.pendingAcks =
                      [k \in DOMAIN @ \ mine |-> @[k]]] : s \in done}
        ELSE {st}

receiveVerbAckUDP(st, msg) ==
    LET key == <<msg.sender, msg.senderHeartbeat>>
    IN  IF key \in DOMAIN st.pendingAcks
        THEN LET pack == st.pendingAcks[key]
                 done == IF pack.callback # NoNode
                         THEN transmitVerbAckUDP(st, pack.callback,
                                                 pack.callbackCode)
                         ELSE {notePingResponseTime(st, pack)}
             IN  {[s EXCEPT !.pendingAcks = Drop(@, key)] : s \in done}
        ELSE {st}

receiveVerbForwardUDP(st, msg) ==
    IF Len(msg.members) = 0
    THEN {[st EXCEPT !.panicked = TRUE]}    \* msg.members[0]: index out of range
    ELSE IF msg.members[1].status = StatusForwardTo
         THEN LET node == msg.members[1].node
                  code == msg.members[1].heartbeat
              IN  transmitVerbGenericUDP(
                      [st EXCEPT !.pendingAcks =
                          Put(@, <<node, code>>,
                              newPendingAck(node, msg.sender, code, packNFP))],
                      node, NoNode, verbNonForwardingPing, code)
         ELSE {st}

receiveVerbPingUDP(st, msg) ==
    transmitVerbAckUDP(st, msg.sender, msg.senderHeartbeat)

receiveVerbNonForwardPingUDP(st, msg) ==
    transmitVerbAckUDP(st, msg.sender, msg.senderHeartbeat)

receiveMessageUDP(st, msg) ==
    LET s1 == updateStatusesFromMessage(
                  synchronizeHeartbeat(decodeMessage(st, msg), msg), msg)
    IN  IF s1.panicked THEN {s1}
        ELSE CASE msg.verb = verbPing -> receiveVerbPingUDP(s1, msg)
               [] msg.verb = verbAck -> receiveVerbAckUDP(s1, msg)
               [] msg.verb = verbPingRequest -> receiveVerbForwardUDP(s1, msg)
               [] msg.verb = verbNonForwardingPing ->
                      receiveVerbNonForwardPingUDP(s1, msg)

(***************************************************************************)
(* Timeouts.                                                               *)
(***************************************************************************)
\* mutant: Dead nodes are not skipped
getTargetNodes_keepsDead(st, count, exclude) ==
    LET live == st.knownNodes \ exclude
        n == Min(count, Cardinality(live))
    IN  UNION {Perms(S) : S \in {T \in SUBSET live : Cardinality(T) = n}}

\* the sequences getTargetNodes can return
getTargetNodes(st, count, exclude) ==
    LET live == {a \in st.knownNodes \ exclude : st.nodes[a].status # StatusDead}
        n == Min(count, Cardinality(live))
    IN  UNION {Perms(S) : S \in {T \in SUBSET live : Cardinality(T) = n}}

RECURSIVE forwardEach(_, _, _)
\* the loop of doForwardOnTimeout over filteredNodes
forwardEach(sts, relays, target) ==
    IF relays = <<>> THEN sts
    ELSE forwardEach(
             UNION {transmitVerbForwardUDP(s, Head(relays), target,
                                           s.currentHeartbeat) : s \in sts},
             Tail(relays), target)

doForwardOnTimeout(st, target) ==
    LET lists == getTargetNodes(st, pingRequestCount(st), {thisHost, target})
    IN  IF lists = {<<>>}
        THEN {updateNodeStatus(st, target, StatusDead, st.currentHeartbeat)}
        ELSE UNION {forwardEach({st}, relays, target) : relays \in lists}

\* mutant: the sweep acts on the entry and leaves it in the table
timeoutEntry_keepsEntry(st, key) ==
    LET pack == st.pendingAcks[key]
    IN  CASE pack.packType = packPing ->
                 [st EXCEPT !.forwards = @ \cup {pack.node}]
          [] pack.packType = packPingReq ->
                 IF pack.callback \in st.knownNodes
                 THEN updateNodeStatus(st, pack.callback, StatusDead,
                                       st.currentHeartbeat)
                 ELSE st
          [] pack.packType = packNFP ->
                 IF pack.node \in st.knownNodes
                 THEN updateNodeStatus(st, pack.node, StatusDead,
                                       st.currentHeartbeat)
                 ELSE st

\* one entry of the sweep of startTimeoutCheckLoop whose time has run out
timeoutEntry(st, key) ==
    LET pack == st.pendingAcks[key]
        s1 == CASE pack.packType = packPing ->
                       [st EXCEPT !.forwards = @ \cup {pack.node}]
                [] pack.packType = packPingReq ->
                       IF pack.callback \in st.knownNodes
                       THEN [updateNodeStatus(st, pack.callback, StatusDead,
                                              st.currentHeartbeat)
                               EXCEPT !.nodes[pack.callback].pingMillis =
                                          PingTimedOut]
                       ELSE st
                [] pack.packType = packNFP ->
                       IF pack.node \in st.knownNodes
                       THEN [updateNodeStatus(st, pack.node, StatusDead,
                                              st.currentHeartbeat)
                               EXCEPT !.nodes[pack.callback].pingMillis =
                                          PingTimedOut]
                       ELSE st
    IN  [s1 EXCEPT !.pendingAcks = Drop(@, key)]

(***************************************************************************)
(* Actions.                                                                *)
(***************************************************************************)
Step(op, node, code, verb) ==
    [op |-> op, node |-> node, code |-> code, verb |-> verb, stale |-> NoNode]

\* The indirect probes with a PingReq still pending after a step, each
\* <<target, code>> with the relays asked and the relays whose ACK resolved
\* their PingReq.  History only: nothing reads it but the properties.
probesAfter(st, ps) ==
    LET live == {<<st.pendingAcks[k].callback, k[2]>> :
                    k \in {j \in DOMAIN st.pendingAcks :
                              st.pendingAcks[j].packType = packPingReq}}
    IN  [p \in DOMAIN ps \cap live |-> ps[p]]

\* the shared state after a step, within the explored bounds
Commit(st) ==
    /\ Cardinality(DOMAIN st.pendingAcks) <= MaxPending
    /\ \A a \in Addr : st.nodes[a].emitCounter >= 0 - MinEmitMagnitude
    /\ knownNodes' = st.knownNodes
    /\ nodes' = st.nodes
    /\ updatedNodes' = st.updatedNodes
    /\ deadNodeRetries' = st.deadNodeRetries
    /\ pendingAcks' = st.pendingAcks
    /\ currentHeartbeat' = st.currentHeartbeat
    /\ knownNodesModifiedFlag' = st.knownNodesModifiedFlag
    /\ pingdata' = st.pingdata
    /\ forwards' = st.forwards
    /\ panicked' = st.panicked
    /\ sent' = st.sent
    /\ notified' = st.notified

Alive == ~panicked

RECURSIVE addInitialHosts(_, _)
\* Begin: "for _, address := range GetInitialHosts()"
addInitialHosts(st, hosts) ==
    IF hosts = <<>> THEN st
    ELSE addInitialHosts(AddNode(st, Head(hosts)), Tail(hosts))

\* the state Begin reaches before its loop, for the initial hosts in order
startup(hosts) ==
    LET s0 == [knownNodes |-> {}, nodes |-> [a \in Addr |-> FreshNode],
               updatedNodes |-> {}, deadNodeRetries |-> <<>>,
               pendingAcks |-> <<>>, currentHeartbeat |-> 0,
               knownNodesModifiedFlag |-> FALSE, pingdata |-> 0,
               forwards |-> {}, panicked |-> FALSE,
               sent |-> <<>>, notified |-> <<>>]
        s1 == AddNode(updateNodeStatus(s0, thisHost, StatusAlive, 0), thisHost)
    IN  addInitialHosts(s1, hosts)

InitWith(hosts) ==
    LET st == startup(hosts)
    IN  /\ knownNodes = st.knownNodes
        /\ nodes = st.nodes
        /\ updatedNodes = st.updatedNodes
        /\ deadNodeRetries = st.deadNodeRetries
        /\ pendingAcks = st.pendingAcks
        /\ currentHeartbeat = st.currentHeartbeat
        /\ knownNodesModifiedFlag = st.knownNodesModifiedFlag
        /\ pingdata = st.pingdata
        /\ forwards = st.forwards
        /\ panicked = st.panicked
        /\ sent = <<>>
        /\ notified = <<>>
        /\ runningFlag = TRUE
        /\ pc = "round"
        /\ randomAllNodes = <<>>
        /\ pingCounter = 0
        /\ last = Step("init", NoNode, 0, "")
        /\ probes = <<>>
        /\ delivered = 0
        /\ checker = "scan"
        /\ loaded = 0
        /\ acking = <<>>

\* a step that writes no datagram, notifies nobody and measures nothing
Quiet == sent' = <<>> /\ notified' = <<>> /\ pingdata' = 0 /\ probes' = probes

\* Begin: "var randomAllNodes = knownNodes.getRandomNodes(0, thisHost)"
BeginRound ==
    /\ Alive /\ pc = "round"
    /\ \E p \in Perms(knownNodes \ {thisHost}) : randomAllNodes' = p
    /\ pingCounter' = 0
    /\ pc' = "visit"
    /\ last' = Step("round", NoNode, 0, "")
    /\ Quiet
    /\ UNCHANGED <<knownNodes, nodes, updatedNodes, deadNodeRetries,
                   pendingAcks, currentHeartbeat, knownNodesModifiedFlag,
                   runningFlag, forwards, panicked, delivered, checker, loaded, acking>>

\* Begin: the inner loop has run out of nodes
BeginRoundEnd ==
    /\ Alive /\ pc = "visit" /\ randomAllNodes = <<>>
    /\ pc' = IF runningFlag THEN "round" ELSE "stopped"
    /\ last' = Step("roundEnd", NoNode, 0, "")
    /\ Quiet
    /\ UNCHANGED <<knownNodes, nodes, updatedNodes, deadNodeRetries,
                   pendingAcks, currentHeartbeat, knownNodesModifiedFlag,
                   runningFlag, forwards, panicked, randomAllNodes,
                   pingCounter, delivered, checker, loaded, acking>>

\* Begin: "currentHeartbeat++; PingNode(node); pingCounter++" up to the sleep
pingStep(node) ==
    /\ currentHeartbeat < MaxHB
    /\ \E st \in transmitVerbPingUDP(
                     [Cur EXCEPT !.currentHeartbeat = @ + 1], node,
                     currentHeartbeat + 1) :
           Commit(st) /\ probes' = probesAfter(st, probes)
    /\ pingCounter' = pingCounter + 1
    /\ randomAllNodes' = Tail(randomAllNodes)
    /\ pc' = "sleep"

\* Begin: the next node of the round; a live one is pinged
BeginVisit ==
    /\ Alive /\ pc = "visit" /\ randomAllNodes # <<>>
    /\ LET node == Head(randomAllNodes)
       IN  /\ last' = Step("visit", node, currentHeartbeat, "")
           /\ IF ~runningFlag
              THEN /\ pc' = "stopped"
                   /\ Quiet
                   /\ UNCHANGED <<knownNodes, nodes, updatedNodes,
                                  deadNodeRetries, pendingAcks,
                                  currentHeartbeat, knownNodesModifiedFlag,
                                  forwards, panicked,
                                  randomAllNodes, pingCounter>>
              ELSE IF nodes[node].status = StatusDead
              THEN /\ pc' = "dead"
                   /\ Quiet
                   /\ UNCHANGED <<knownNodes, nodes, updatedNodes,
                                  deadNodeRetries, pendingAcks,
                                  currentHeartbeat, knownNodesModifiedFlag,
                                  forwards, panicked,
                                  randomAllNodes, pingCounter>>
              ELSE pingStep(node)
    /\ UNCHANGED <<runningFlag, delivered, checker, loaded, acking>>

\* Begin: "currentHeartbeat++" on the unsynchronised global, first half: the
\* next node is live and the counter is read
BeginLoad ==
    /\ Alive /\ pc = "visit" /\ randomAllNodes # <<>>
    /\ runningFlag
    /\ nodes[Head(randomAllNodes)].status # StatusDead
    /\ loaded' = currentHeartbeat
    /\ pc' = "inc"
    /\ last' = Step("load", Head(randomAllNodes), currentHeartbeat, "")
    /\ Quiet
    /\ UNCHANGED <<knownNodes, nodes, updatedNodes, deadNodeRetries,
                   pendingAcks, currentHeartbeat, knownNodesModifiedFlag,
                   runningFlag, forwards, panicked, randomAllNodes,
                   pingCounter, delivered, checker, acking>>

\* Begin: "currentHeartbeat++", second half: the read value plus one is
\* written back, then "PingNode(node); pingCounter++" up to the sleep
BeginStore ==
    /\ Alive /\ pc = "inc"
    /\ loaded < MaxHB
    /\ \E st \in transmitVerbPingUDP(
                     [Cur EXCEPT !.currentHeartbeat = loaded + 1],
                     Head(randomAllNodes), loaded + 1) :
           Commit(st) /\ probes' = probesAfter(st, probes)
    /\ pingCounter' = pingCounter + 1
    /\ randomAllNodes' = Tail(randomAllNodes)
    /\ pc' = "sleep"
    /\ last' = Step("store", Head(randomAllNodes), loaded + 1, "")
    /\ UNCHANGED <<runningFlag, delivered, checker, loaded, acking>>

RECURSIVE Pow2(_)
Pow2(n) == IF n = 0 THEN 1 ELSE 2 * Pow2(n - 1)

\* mutant: the countdown restarts at 2 * retry instead of 2^retry
deadNodeCounter_linear(retries, node) ==
    LET dnc == IF node \in DOMAIN retries THEN retries[node]
               ELSE [retry |-> 1, retryCountdown |-> 2]
        cd == dnc.retryCountdown - 1
    IN  IF cd <= 0
        THEN [retry |-> dnc.retry + 1, retryCountdown |-> 2 * (dnc.retry + 1)]
        ELSE [retry |-> dnc.retry, retryCountdown |-> cd]

\* the deadNodeCounter of the visit, after "dnc.retryCountdown--" and the
\* backoff step
deadNodeCounter(retries, node) ==
    LET dnc == IF node \in DOMAIN retries THEN retries[node]
               ELSE [retry |-> 1, retryCountdown |-> 2]
        cd == dnc.retryCountdown - 1
    IN  IF cd <= 0
        THEN [retry |-> dnc.retry + 1, retryCountdown |-> Pow2(dnc.retry + 1)]
        ELSE [retry |-> dnc.retry, retryCountdown |-> cd]

\* Begin: the exponential backoff of a node found Dead
BeginDead ==
    /\ Alive /\ pc = "dead"
    /\ LET node == Head(randomAllNodes)
           old == IF node \in DOMAIN deadNodeRetries
                  THEN deadNodeRetries[node].retryCountdown ELSE 2
           dnc == deadNodeCounter(deadNodeRetries, node)
           s1 == [Cur EXCEPT !.deadNodeRetries = Put(@, node, dnc)]
       IN  /\ last' = Step("dead", node, currentHeartbeat, "")
           /\ IF old - 1 > 0
              THEN \* continue
                   /\ Commit(s1) /\ probes' = probes
                   /\ randomAllNodes' = Tail(randomAllNodes)
                   /\ pc' = "visit"
                   /\ UNCHANGED pingCounter
              ELSE IF dnc.retry > maxDeadNodeRetries
              THEN \* forget the node
                   /\ Commit(RemoveNode(
                          [s1 EXCEPT !.deadNodeRetries = Drop(@, node)], node))
                   /\ probes' = probes
                   /\ randomAllNodes' = Tail(randomAllNodes)
                   /\ pc' = "visit"
                   /\ UNCHANGED pingCounter
              ELSE /\ currentHeartbeat < MaxHB
                   /\ \E st \in transmitVerbPingUDP(
                                    [s1 EXCEPT !.currentHeartbeat = @ + 1],
                                    node, currentHeartbeat + 1) :
                          Commit(st) /\ probes' = probesAfter(st, probes)
                   /\ pingCounter' = pingCounter + 1
                   /\ randomAllNodes' = Tail(randomAllNodes)
                   /\ pc' = "sleep"
    /\ UNCHANGED <<runningFlag, delivered, checker, loaded, acking>>

\* Begin: after the sleep, "if knownNodesModifiedFlag"
BeginWake ==
    /\ Alive /\ pc = "sleep"
    /\ IF knownNodesModifiedFlag
       THEN /\ knownNodesModifiedFlag' = FALSE
            /\ pc' = IF runningFlag THEN "round" ELSE "stopped"
       ELSE /\ pc' = "visit"
            /\ UNCHANGED knownNodesModifiedFlag
    /\ last' = Step("wake", NoNode, 0, "")
    /\ Quiet
    /\ UNCHANGED <<knownNodes, nodes, updatedNodes, deadNodeRetries,
                   pendingAcks, currentHeartbeat, runningFlag,
                   forwards, panicked, randomAllNodes, pingCounter,
                   delivered, checker, loaded, acking>>

\* startTimeoutCheckLoop finds the entry at `key` timed out
Timeout(key) ==
    /\ Alive /\ checker = "scan" /\ key \in DOMAIN pendingAcks
    /\ LET st == timeoutEntry(Cur, key)
       IN  Commit(st) /\ probes' = probesAfter(st, probes)
    /\ last' = Step("timeout", key[1], key[2], pendingAcks[key].packType)
    /\ UNCHANGED <<runningFlag, pc, randomAllNodes, pingCounter, delivered, checker, loaded, acking>>

\* a goroutine spawned by "go doForwardOnTimeout(pack)" runs
Forward(target) ==
    /\ Alive /\ target \in forwards
    /\ \E st \in doForwardOnTimeout([Cur EXCEPT !.forwards = @ \ {target}],
                                    target) :
          /\ Commit(st)
          /\ LET relays == {d.to : d \in {st.sent[i] : i \in DOMAIN st.sent}}
                 probe == <<target, currentHeartbeat>>
             IN  probes' = probesAfter(st,
                     IF relays = {} THEN probes
                     ELSE Put(probes, probe, [relays |-> relays, acked |-> {}]))
    /\ last' = Step("forward", target, currentHeartbeat, "")
    /\ UNCHANGED <<runningFlag, pc, randomAllNodes, pingCounter, delivered, checker, loaded, acking>>

\* history: the node of the first member record, if the registry holds a
\* higher heartbeat for it than the record carries
staleMember(st, msg) ==
    IF /\ msg.members # <<>>
       /\ msg.members[1].node \in st.knownNodes
       /\ msg.members[1].heartbeat < st.nodes[msg.members[1].node].heartbeat
    THEN msg.members[1].node
    ELSE NoNode

\* listenUDP hands a datagram to receiveMessageUDP
Receive(msg) ==
    /\ Alive /\ runningFlag
    /\ \E st \in receiveMessageUDP(Cur, msg) :
          /\ Commit(st)
          /\ LET key == <<msg.sender, msg.senderHeartbeat>>
                 hit == /\ msg.verb = verbAck /\ key \in DOMAIN pendingAcks
                        /\ pendingAcks[key].packType = packPingReq
                 probe == <<pendingAcks[key].callback, key[2]>>
             IN  probes' = probesAfter(st,
                     IF hit /\ probe \in DOMAIN probes
                     THEN [probes EXCEPT ![probe].acked = @ \cup {msg.sender}]
                     ELSE probes)
    /\ last' = [Step("recv", msg.sender, msg.senderHeartbeat, msg.verb)
                  EXCEPT !.stale = staleMember(Cur, msg)]
    /\ UNCHANGED <<runningFlag, pc, randomAllNodes, pingCounter, checker, loaded, acking>>

\* listenUDP reads one of the `budget` datagrams that reach the socket
Deliver(msg, budget) ==
    /\ delivered < budget
    /\ Receive(msg)
    /\ delivered' = delivered + 1

\* receiveMessageUDP for an ACK up to receiveVerbAckUDP's first look at the
\* table under RLock, which finds the key: the handler goes on to Lock
AckLookup(msg) ==
    /\ Alive /\ runningFlag /\ msg.verb = verbAck
    /\ LET st == updateStatusesFromMessage(
                     synchronizeHeartbeat(decodeMessage(Cur, msg), msg), msg)
           key == <<msg.sender, msg.senderHeartbeat>>
       IN  /\ ~st.panicked
           /\ key \in DOMAIN st.pendingAcks
           /\ Commit(st) /\ probes' = probesAfter(st, probes)
           /\ acking' = Put(acking, key,
                            IF key \in DOMAIN acking THEN acking[key] + 1 ELSE 1)
    /\ last' = Step("lookup", msg.sender, msg.senderHeartbeat, verbAck)
    /\ UNCHANGED <<runningFlag, pc, randomAllNodes, pingCounter, delivered,
                   checker, loaded>>

\* receiveVerbAckUDP under Lock: the second look at the table, the action of
\* the entry if it is still there, and the delete
AckLocked(key) ==
    /\ Alive /\ key \in DOMAIN acking
    /\ LET msg == [verb |-> verbAck, sender |-> key[1],
                   senderHeartbeat |-> key[2], members |-> <<>>]
           hit == /\ key \in DOMAIN pendingAcks
                  /\ pendingAcks[key].packType = packPingReq
           probe == <<pendingAcks[key].callback, key[2]>>
       IN  \E st \in receiveVerbAckUDP(Cur, msg) :
              /\ Commit(st)
              /\ probes' = probesAfter(st,
                     IF hit /\ probe \in DOMAIN probes
                     THEN [probes EXCEPT ![probe].acked = @ \cup {key[1]}]
                     ELSE probes)
    /\ acking' = IF acking[key] = 1 THEN Drop(acking, key)
                 ELSE [acking EXCEPT ![key] = @ - 1]
    /\ last' = Step("locked", key[1], key[2],
                    IF key \in DOMAIN pendingAcks
                    THEN pendingAcks[key].packType ELSE "")
    /\ UNCHANGED <<runningFlag, pc, randomAllNodes, pingCounter, delivered,
                   checker, loaded>>

\* Stop: "runningFlag.UnSet()"; the read deadline ends listenUDP
Stop ==
    /\ Alive /\ runningFlag
    /\ runningFlag' = FALSE
    /\ last' = Step("stop", NoNode, 0, "")
    /\ Quiet
    /\ UNCHANGED <<knownNodes, nodes, updatedNodes, deadNodeRetries,
                   pendingAcks, currentHeartbeat, knownNodesModifiedFlag,
                   forwards, panicked, pc, randomAllNodes, pingCounter,
                   delivered, checker, loaded, acking>>

\* startTimeoutCheckLoop: the scan of the pending acks is over,
\* "time.Sleep(time.Millisecond * 100)"
CheckerSleep ==
    /\ Alive /\ checker = "scan"
    /\ checker' = "sleep"
    /\ last' = Step("checkerSleep", NoNode, 0, "")
    /\ Quiet
    /\ UNCHANGED <<knownNodes, nodes, updatedNodes, deadNodeRetries,
                   pendingAcks, currentHeartbeat, knownNodesModifiedFlag,
                   runningFlag, forwards, panicked, pc, randomAllNodes,
                   pingCounter, delivered, loaded, acking>>

\* startTimeoutCheckLoop: the sleep is over, "for {" starts the next scan
\* whatever the running flag
CheckerWake ==
    /\ Alive /\ checker = "sleep"
    /\ checker' = "scan"
    /\ last' = Step("checkerWake", NoNode, 0, "")
    /\ Quiet
    /\ UNCHANGED <<knownNodes, nodes, updatedNodes, deadNodeRetries,
                   pendingAcks, currentHeartbeat, knownNodesModifiedFlag,
                   runningFlag, forwards, panicked, pc, randomAllNodes,
                   pingCounter, delivered, loaded, acking>>

(***************************************************************************)
(* Inputs.                                                                 *)
(***************************************************************************)
MemberRecords(A, S, H) == [node : A, status : S, heartbeat : H]

Messages(V, A, H, M) ==
    [verb : V, sender : A, senderHeartbeat : H, members : M]

\* the lists of initial hosts explored: the first k peers, k = 0..n
HostLists(n) == {[i \in 1..k |-> i + 1] : k \in 0..n}

(***************************************************************************)
(* Spec: probing in a cluster of up to four.  The peers listed as initial  *)
(* hosts answer (or not) with ACKs; pending acks time out at any moment.   *)
(***************************************************************************)
\* initial hosts of Spec are the peers 2..ProbeHosts+1
ProbeHosts == 3
\* currentHeartbeat stays within ProbeMaxHB in Spec
ProbeMaxHB == 2

ProbeMsgs == Messages({verbAck}, 2..(ProbeHosts + 1), 0..MaxMsgHB, {<<>>})

Init == \E h \in HostLists(ProbeHosts) : InitWith(h)

Next ==
    \/ BeginRound
    \/ BeginRoundEnd
    \/ BeginVisit /\ currentHeartbeat' <= ProbeMaxHB
    \/ BeginDead /\ currentHeartbeat' <= ProbeMaxHB
    \/ BeginWake
    \/ \E key \in DOMAIN pendingAcks : Timeout(key)
    \/ \E t \in forwards : Forward(t)
    \/ \E m \in ProbeMsgs :
          m.sender \in knownNodes /\ Receive(m) /\ UNCHANGED delivered

Spec == Init /\ [][Next]_vars

(***************************************************************************)
(* SpecMerge: a node with at most one initial host reads MergeBudget        *)
(* arbitrary datagrams of any verb, each with at most one member record     *)
(* about itself or a peer; pending acks time out at any moment.  The Begin  *)
(* loop has not pinged yet.                                                 *)
(***************************************************************************)
\* the peers of SpecMerge are 2..MergePeers+1
MergePeers == 2
\* datagrams read in a behaviour of SpecMerge
MergeBudget == 2

MergeRecords ==
    MemberRecords(1..(MergePeers + 1), NodeStatus, 0..MaxMsgHB)

MergeMsgs ==
    Messages(messageVerb, 2..(MergePeers + 1), 0..MaxMsgHB,
             {<<>>} \cup {<<r>> : r \in MergeRecords})

InitMerge == \E h \in HostLists(1) : InitWith(h)

NextMerge ==
    \/ \E key \in DOMAIN pendingAcks : Timeout(key)
    \/ \E m \in MergeMsgs : Deliver(m, MergeBudget)

SpecMerge == InitMerge /\ [][NextMerge]_vars

(***************************************************************************)
(* SpecFanout: a node with FanoutHosts silent initial hosts.  No datagram   *)
(* arrives; the first probe times out and is relayed.  currentHeartbeat     *)
(* stays within FanoutMaxHB, so a round of the Begin loop never completes.  *)
(***************************************************************************)
FanoutHosts == 5
FanoutMaxHB == 1

InitFanout == InitWith([i \in 1..FanoutHosts |-> i + 1])

NextFanout ==
    \/ BeginRound
    \/ BeginVisit /\ currentHeartbeat' <= FanoutMaxHB
    \/ BeginDead /\ currentHeartbeat' <= FanoutMaxHB
    \/ BeginWake
    \/ \E key \in DOMAIN pendingAcks : Timeout(key)
    \/ \E t \in forwards : Forward(t)

SpecFanout == InitFanout /\ [][NextFanout]_vars

(***************************************************************************)
(* SpecDecay: a node whose only initial host never answers.  The peer is    *)
(* pinged DecayProbes times while not Dead, and a probe's pending acks time *)
(* out before the peer's next visit.  The Begin loop, the timeout checker   *)
(* and the forwarding goroutines keep running.                              *)
(***************************************************************************)
DecayProbes == 1

InitDecay == InitWith(<<2>>)

BeginDecay ==
    \/ BeginRound
    \/ BeginRoundEnd
    \/ /\ BeginVisit /\ pendingAcks = <<>>
       /\ currentHeartbeat' > currentHeartbeat
             => currentHeartbeat' <= DecayProbes
    \/ BeginDead /\ pendingAcks = <<>>
    \/ BeginWake

TimeoutDecay == \E key \in DOMAIN pendingAcks : Timeout(key)

ForwardDecay == \E t \in forwards : Forward(t)

NextDecay == BeginDecay \/ TimeoutDecay \/ ForwardDecay

SpecDecay ==
    /\ InitDecay /\ [][NextDecay]_vars
    /\ WF_vars(BeginDecay) /\ WF_vars(TimeoutDecay) /\ WF_vars(ForwardDecay)

(***************************************************************************)
(* SpecStop: a node with up to StopHosts initial hosts that is stopped at   *)
(* some moment.  The peers answer with ACKs or stay silent.  The Begin      *)
(* loop, the timeout checker and the forwarding goroutines keep running;    *)
(* Stop is called while currentHeartbeat is below StopMaxHB.                *)
(***************************************************************************)
StopHosts == 2
StopMaxHB == 2

StopMsgs == Messages({verbAck}, 2..(StopHosts + 1), 1..StopMaxHB, {<<>>})

InitStop == \E h \in HostLists(StopHosts) : InitWith(h)

BeginStop ==
    \/ BeginRound
    \/ BeginRoundEnd
    \/ BeginVisit /\ currentHeartbeat' <= StopMaxHB
    \/ BeginDead /\ currentHeartbeat' <= StopMaxHB
    \/ BeginWake

CheckerStop ==
    \/ \E key \in DOMAIN pendingAcks : Timeout(key)
    \/ CheckerSleep
    \/ CheckerWake

ForwardStop == \E t \in forwards : Forward(t)

ReceiveStop ==
    \E m \in StopMsgs :
        m.sender \in knownNodes /\ Receive(m) /\ UNCHANGED delivered

NextStop ==
    \/ BeginStop
    \/ CheckerStop
    \/ ForwardStop
    \/ ReceiveStop
    \/ Stop /\ currentHeartbeat < StopMaxHB

SpecStop ==
    /\ InitStop /\ [][NextStop]_vars
    /\ WF_vars(BeginStop) /\ WF_vars(CheckerStop) /\ WF_vars(ForwardStop)

(***************************************************************************)
(* SpecRace: a node with one initial host whose Begin loop increments       *)
(* currentHeartbeat in two steps (read, write back) while the handlers of   *)
(* the peer's datagrams run in their own goroutines.  The loop's own        *)
(* heartbeats stay within RaceMaxHB; the peer's may be one ahead.           *)
(***************************************************************************)
RaceMaxHB == 2

RaceMsgs == Messages({verbPing, verbAck}, {2}, 0..(RaceMaxHB + 1), {<<>>})

InitRace == InitWith(<<2>>)

NextRace ==
    \/ BeginRound
    \/ BeginRoundEnd
    \/ BeginVisit /\ currentHeartbeat' = currentHeartbeat
    \/ BeginLoad
    \/ BeginStore /\ currentHeartbeat' <= RaceMaxHB
    \/ BeginDead /\ currentHeartbeat' <= RaceMaxHB
    \/ BeginWake
    \/ \E key \in DOMAIN pendingAcks : Timeout(key)
    \/ \E t \in forwards : Forward(t)
    \/ \E m \in RaceMsgs : Receive(m) /\ UNCHANGED delivered

SpecRace == InitRace /\ [][NextRace]_vars

(***************************************************************************)
(* SpecJoin: a node with one initial host that hears from JoinPeers peers   *)
(* it does not know yet while its Begin loop probes.  currentHeartbeat      *)
(* stays within JoinMaxHB.                                                  *)
(***************************************************************************)
JoinPeers == 2
JoinMaxHB == 1

JoinMsgs == Messages({verbPing}, 3..(JoinPeers + 2), 0..1, {<<>>})

InitJoin == InitWith(<<2>>)

NextJoin ==
    \/ BeginRound
    \/ BeginRoundEnd
    \/ BeginVisit /\ currentHeartbeat' <= JoinMaxHB
    \/ BeginDead /\ currentHeartbeat' <= JoinMaxHB
    \/ BeginWake
    \/ \E key \in DOMAIN pendingAcks : Timeout(key)
    \/ \E t \in forwards : Forward(t)
    \/ \E m \in JoinMsgs : Receive(m) /\ UNCHANGED delivered

SpecJoin == InitJoin /\ [][NextJoin]_vars

(***************************************************************************)
(* SpecAck: the ACK handlers run as goroutines of their own: the look at   *)
(* the table under RLock and the part under Lock are separate steps, with  *)
(* the timeout checker, the Begin loop and other ACK handlers in between.  *)
(* At most AckHandlers handlers are between the two at a time.             *)
(***************************************************************************)
AckHosts == 2
AckMaxHB == 2
AckHandlers == 2

AckMsgs == Messages({verbAck}, 2..(AckHosts + 1), 1..AckMaxHB, {<<>>})

RECURSIVE inFlight(_)
\* the number of handlers between RUnlock and Lock
inFlight(f) ==
    IF DOMAIN f = {} THEN 0
    ELSE LET k == CHOOSE x \in DOMAIN f : TRUE
         IN  f[k] + inFlight(Drop(f, k))

InitAck == InitWith([i \in 1..AckHosts |-> i + 1])

NextAck ==
    \/ BeginRound
    \/ BeginRoundEnd
    \/ BeginVisit /\ currentHeartbeat' <= AckMaxHB
    \/ BeginDead /\ currentHeartbeat' <= AckMaxHB
    \/ BeginWake
    \/ \E key \in DOMAIN pendingAcks : Timeout(key)
    \/ \E t \in forwards : Forward(t)
    \/ \E m \in AckMsgs : AckLookup(m) /\ inFlight(acking') <= AckHandlers
    \/ \E key \in DOMAIN acking : AckLocked(key)

SpecAck == InitAck /\ [][NextAck]_vars

(***************************************************************************)
(* Properties.                                                             *)
(***************************************************************************)
\* the step just taken (into the primed state) is the timeout of `key`
TimedOut(key) ==
    /\ last'.op = "timeout" /\ last'.node = key[1] /\ last'.code = key[2]
    /\ key \in DOMAIN pendingAcks

\* the step just taken is the receipt of an ACK carrying `key`
Acked(key) ==
    /\ last'.op = "recv" /\ last'.verb = verbAck
    /\ last'.node = key[1] /\ last'.code = key[2]

Keys == Addr \X (0..MaxHB)

\* C1: a peer is declared Dead by an indirect probe only if every PingReq of
\* that probe timed out: when some relay's ACK for the probe has arrived, the
\* timeout of another relay's PingReq of the same probe does not turn the
\* probed peer Dead.
C1_DeadOnlyIfAllPingReqsTimeOut ==
    [][\A key \in Keys :
          (/\ TimedOut(key)
           /\ pendingAcks[key].packType = packPingReq
           /\ <<pendingAcks[key].callback, key[2]>> \in DOMAIN probes
           /\ probes[<<pendingAcks[key].callback, key[2]>>].acked # {})
          => ~(/\ nodes[pendingAcks[key].callback].status # StatusDead
               /\ nodes'[pendingAcks[key].callback].status = StatusDead)]_vars

\* C2: in a cluster {A, B, C}, once the relay's ACK for A's PingReq about B
\* arrives before that PingReq timed out, the handler leaves B's status as it
\* was, removes the PingReq entry and leaves no PingReq of that probe behind
\* whose timeout could turn B Dead.
C2_IndirectAckKeepsPeer ==
    [][\A key \in Keys :
          (/\ Acked(key)
           /\ key \in DOMAIN pendingAcks
           /\ pendingAcks[key].packType = packPingReq
           /\ Cardinality(knownNodes) = 3)
          => LET b == pendingAcks[key].callback
             IN  /\ nodes'[b].status = nodes[b].status
                 /\ key \notin DOMAIN pendingAcks'
                 /\ \A k \in DOMAIN pendingAcks' :
                       ~(/\ pendingAcks'[k].packType = packPingReq
                         /\ pendingAcks'[k].callback = b
                         /\ k[2] = key[2])]_vars

\* C2 witness: the relay's ACK has just resolved the only PingReq of a probe in
\* a three-node cluster and the probed peer is Alive
C2_Witness ==
    /\ last.op = "recv" /\ last.verb = verbAck
    /\ Cardinality(knownNodes) = 3
    /\ Len(sent) = 1 /\ sent[1].verb = verbAck /\ sent[1].to # last.node
    /\ nodes[sent[1].to].status = StatusAlive
    /\ pendingAcks = <<>>

\* C5: an ACK touches the pending entry keyed by its sender and heartbeat and
\* no other; when no entry has that key the pending-ack table is unchanged,
\* nothing is fed to the RTT estimator and no datagram is written.
C5_AckResolvesOnlyItsKey ==
    [][\A key \in Keys :
          Acked(key)
          => /\ \A k \in DOMAIN pendingAcks \ {key} :
                   k \in DOMAIN pendingAcks' /\ pendingAcks'[k] = pendingAcks[k]
             /\ DOMAIN pendingAcks' \subseteq DOMAIN pendingAcks
             /\ key \notin DOMAIN pendingAcks
                   => /\ pendingAcks' = pendingAcks
                      /\ pingdata' = 0
                      /\ sent' = <<>>]_vars

\* C5 witness: an ACK carrying an earlier heartbeat has been handled and the
\* entry of a later probe of the same peer is still pending
C5_Witness ==
    /\ last.op = "recv" /\ last.verb = verbAck
    /\ \E k \in DOMAIN pendingAcks :
          /\ k[1] = last.node /\ k[2] > last.code
          /\ pendingAcks[k].packType = packPing

\* C3: the node's own status is Alive and never Dead, whatever datagrams
\* it reads and whichever pending acks time out.
C3_SelfNeverDead == nodes[thisHost].status # StatusDead

\* C4: a step never lowers the heartbeat the registry holds for a node that
\* stays in the registry.
C4_HeartbeatNeverDecreases ==
    [][\A a \in knownNodes \cap knownNodes' :
          nodes'[a].heartbeat >= nodes[a].heartbeat]_vars

\* C6: merging a member record about a registry node R whose heartbeat is
\* below the one the registry holds for R leaves R's status and heartbeat,
\* the recently-updated set and the dead-node retry table as they were.
C6_StaleRecordDropped ==
    \A m \in MergeRecords :
        (m.node \in knownNodes /\ m.heartbeat < nodes[m.node].heartbeat)
        => LET st == mergeMember(Cur, m)
           IN  /\ st.nodes[m.node].status = nodes[m.node].status
               /\ st.nodes[m.node].heartbeat = nodes[m.node].heartbeat
               /\ st.nodes[m.node].emitCounter = nodes[m.node].emitCounter
               /\ st.knownNodes = knownNodes
               /\ st.updatedNodes = updatedNodes
               /\ st.deadNodeRetries = deadNodeRetries

\* a datagram with a stale record about a registry node has just been
\* handled, and the node still has its higher heartbeat
C6_Witness ==
    /\ last.op = "recv" /\ last.stale # NoNode /\ ~panicked
    /\ last.stale \in knownNodes /\ nodes[last.stale].heartbeat > 0

\* C7: after the handler of a datagram from S with sender heartbeat h, S is
\* in the registry, and if h exceeded the heartbeat the registry held for S
\* then S is Alive there with heartbeat h.
C7_SenderMarkedAlive ==
    [][last'.op = "recv"
       => LET S == last'.node
              h == last'.code
          IN  /\ S \in knownNodes'
              /\ (S \in knownNodes /\ h > nodes[S].heartbeat)
                 => /\ nodes'[S].status = StatusAlive
                    /\ nodes'[S].heartbeat = h]_vars

\* C9: only Dead nodes have an entry in the dead-node retry table.
C9_RetriesOnlyForDead ==
    \A a \in DOMAIN deadNodeRetries : nodes[a].status = StatusDead

\* the retry counter the Begin loop finds for n: the table's, or the one it
\* creates
Counter(n) ==
    IF n \in DOMAIN deadNodeRetries THEN deadNodeRetries[n]
    ELSE [retry |-> 1, retryCountdown |-> 2]

\* the step just taken is the Begin loop's visit of the Dead node n
DeadVisit(n) == last'.op = "dead" /\ last'.node = n

Pinged(n) == \E i \in DOMAIN sent' : sent'[i].verb = verbPing /\ sent'[i].to = n

\* C8: a node that stays Dead is eventually removed from the registry by
\* the Begin loop.  A visit of a Dead node whose countdown stays above 0
\* skips it; a visit on which the countdown reaches 0 increments retry and,
\* while retry is at most 10, resets the countdown to 2^retry and pings the
\* node; the visit on which retry first exceeds 10 removes the node and its
\* retry entry without a ping; the node leaves the registry at no other step.
C8_DeadNodeDecay ==
    /\ [][\A n \in Peers :
            /\ DeadVisit(n) =>
                 LET c == Counter(n)
                 IN  IF c.retryCountdown - 1 > 0
                     THEN /\ n \in knownNodes' /\ ~Pinged(n)
                          /\ deadNodeRetries'[n] =
                               [retry |-> c.retry,
                                retryCountdown |-> c.retryCountdown - 1]
                     ELSE IF c.retry + 1 <= 10
                     THEN /\ n \in knownNodes' /\ Pinged(n)
                          /\ deadNodeRetries'[n] =
                               [retry |-> c.retry + 1,
                                retryCountdown |-> 2 ^ (c.retry + 1)]
                     ELSE /\ n \notin knownNodes' /\ ~Pinged(n)
                          /\ n \notin DOMAIN deadNodeRetries'
            /\ (n \in knownNodes /\ n \notin knownNodes')
                   => DeadVisit(n) /\ Counter(n).retry = 10]_vars
    /\ \A n \in Peers :
          (n \in knownNodes /\ nodes[n].status = StatusDead)
             ~> (n \notin knownNodes)

\* the silent peer has just been removed at its visit, after nine re-probes
C8_Witness ==
    /\ last.op = "dead" /\ last.node = 2
    /\ 2 \notin knownNodes /\ 2 \notin DOMAIN deadNodeRetries
    /\ nodes[2].status = StatusDead
    /\ currentHeartbeat = DecayProbes + 9

\* C10: every datagram written carries at most k member records, k the
\* pingRequestCount of the registry at send time, and no member record is
\* about the datagram's destination or about this node.
C10_MembersWithinFanout ==
    \A i \in DOMAIN sent :
        /\ Len(sent[i].members) <= sent[i].k
        /\ \A j \in DOMAIN sent[i].members :
              sent[i].members[j].node \notin {sent[i].to, thisHost}

\* the nodes attached as member records to datagram d
Attached(d) == {d.members[j].node : j \in DOMAIN d.members}

\* C11: a ping of the Begin loop writes one datagram; every member attached
\* to it has its emit counter lowered by exactly 1, and the emit counter of
\* every other node is unchanged.
C11_EmitDecrementedOnce ==
    [][(last'.op = "visit" /\ Len(sent') = 1)
       => \A a \in Addr :
             nodes'[a].emitCounter =
                 IF a \in Attached(sent'[1])
                 THEN nodes[a].emitCounter - 1
                 ELSE nodes[a].emitCounter]_vars

\* C12: when the Begin loop's ping selects the members of its datagram, the
\* updated set is left without any node whose emit counter (before the send)
\* is 0 or less, and every member taken from the updated set had a positive
\* emit counter; members come from elsewhere only when the updated set has
\* no candidate.
C12_UpdatedSetHasPendingEmissions ==
    [][(last'.op = "visit" /\ Len(sent') = 1)
       => LET d == sent'[1]
          IN  /\ updatedNodes' \subseteq updatedNodes
              /\ \A a \in updatedNodes' : nodes[a].emitCounter > 0
              /\ \A a \in updatedNodes \ updatedNodes' :
                    nodes[a].emitCounter <= 0
              /\ (updatedNodes' \ {d.to, thisHost} # {})
                    => /\ Attached(d) \subseteq updatedNodes'
                       /\ \A a \in Attached(d) : nodes[a].emitCounter > 0]_vars

\* a ping has just attached updated nodes while a node with an exhausted
\* emit counter is out of the updated set
C12_Witness ==
    /\ last.op = "visit" /\ Len(sent) = 1
    /\ sent[1].members # <<>>
    /\ Attached(sent[1]) \subseteq updatedNodes
    /\ \E a \in knownNodes \ (updatedNodes \cup {thisHost}) :
          nodes[a].emitCounter <= 0

\* C13: once Stop has cleared the running flag, the Begin loop and the
\* timeout-check loop eventually exit, the listener hands over no further
\* datagram, and the Begin loop sends no Ping after it has exited.
C13_LoopsExitAfterStop ==
    /\ (~runningFlag) ~> (pc = "stopped")
    /\ (~runningFlag) ~> (checker = "exited")
    /\ [][~runningFlag => last'.op # "recv"]_vars
    /\ [][pc = "stopped"
          => \A i \in DOMAIN sent' : sent'[i].verb # verbPing]_vars

\* C14: no datagram read from the socket aborts the process: no handler
\* panics.
C14_NoDatagramAborts == ~panicked

\* C15: the handler of a datagram with sender heartbeat h > 0 leaves
\* currentHeartbeat at the larger of its previous value and h - 1, and the
\* next step of any goroutine (the Begin loop's increment included) leaves
\* it at h - 1 or more; a datagram with sender heartbeat 0 leaves
\* currentHeartbeat unchanged.
C15_HeartbeatSynchronized ==
    [][/\ last'.op = "recv"
          => currentHeartbeat' =
                 IF last'.code > 0 /\ last'.code - 1 > currentHeartbeat
                 THEN last'.code - 1
                 ELSE currentHeartbeat
       /\ (last.op = "recv" /\ last.code > 0)
          => currentHeartbeat' >= last.code - 1]_vars

\* C16: when the relay's ACK for a PingReq about peer B arrives before the
\* PingReq timed out, a ping response time is recorded for B.
C16_IndirectRTTRecorded ==
    [][\A key \in Keys :
          (/\ Acked(key)
           /\ key \in DOMAIN pendingAcks
           /\ pendingAcks[key].packType = packPingReq)
          => /\ nodes'[pendingAcks[key].callback].pingMillis = PingMeasured
             /\ pingdata' > 0]_vars

\* C17: updateNodeStatus(n, s, h) on a node whose status already is s
\* changes nothing (status, heartbeat and emit counter of n, updated set,
\* retry table) and notifies nobody; on a node with another status it sets
\* the status and notifies the listener once.
C17_UpdateNodeStatusNoOp ==
    \A a \in Addr, s \in NodeStatus, h \in 0..MaxMsgHB :
        LET st == updateNodeStatus(Cur, a, s, h)
        IN  IF nodes[a].status = s
            THEN /\ st.nodes = nodes
                 /\ st.updatedNodes = updatedNodes
                 /\ st.deadNodeRetries = deadNodeRetries
                 /\ st.notified = <<>>
            ELSE /\ st.nodes[a].status = s
                 /\ st.notified = <<<<a, s>>>>

\* the handler of a datagram has just called updateNodeStatus(sender,
\* Alive, h) with h above the registry's heartbeat of the Alive sender:
\* nothing changed and nobody was notified
C17_Witness ==
    /\ last.op = "recv" /\ ~panicked
    /\ last.node \in knownNodes
    /\ nodes[last.node].status = StatusAlive
    /\ last.code > nodes[last.node].heartbeat
    /\ notified = <<>>

C19_NoForwardToInRegistry ==
    /\ \A a \in knownNodes : nodes[a].status # StatusForwardTo
    /\ \A m \in MergeRecords :
          m.status = StatusForwardTo => mergeMember(Cur, m) = Cur

\* a PingRequest whose ForwardTo record names a node outside the registry
\* has just been handled: the relayed ping is pending and the node is still
\* outside the registry
C19_Witness ==
    /\ last.op = "recv" /\ last.verb = verbPingRequest /\ ~panicked
    /\ \E key \in DOMAIN pendingAcks :
          /\ pendingAcks[key].packType = packNFP
          /\ key[1] \notin knownNodes
    /\ \E i \in DOMAIN sent : sent[i].verb = verbNonForwardingPing

\* C20: every step that adds a node to the registry or removes one leaves
\* knownNodesModifiedFlag set, and so does RemoveNode of any registry node;
\* after a probe's sleep the Begin loop, if the flag is set, clears it and
\* restarts the round, and otherwise goes on with the round; a round starts
\* with a snapshot of every registry node but this one, each once.
C20_ModifiedFlagRestartsRound ==
    /\ [][knownNodes' # knownNodes => knownNodesModifiedFlag']_vars
    /\ [](\A a \in knownNodes : RemoveNode(Cur, a).knownNodesModifiedFlag)
    /\ [][last'.op = "wake"
          => IF knownNodesModifiedFlag
             THEN ~knownNodesModifiedFlag' /\ pc' = "round"
             ELSE ~knownNodesModifiedFlag' /\ pc' = "visit"
                  /\ randomAllNodes' = randomAllNodes]_vars
    /\ [][last'.op = "round"
          => /\ SeqToSet(randomAllNodes') = knownNodes \ {thisHost}
             /\ Len(randomAllNodes') = Cardinality(knownNodes) - 1]_vars

\* two peers joined before the check after a probe's sleep; the check has
\* just cleared the flag and restarted the round
C20_Witness ==
    /\ last.op = "wake" /\ pc = "round" /\ ~knownNodesModifiedFlag
    /\ knownNodes = {thisHost, 2, 3, 4}
    /\ currentHeartbeat = JoinMaxHB

\* C21: the goroutine started for a timed-out Ping of T writes only
\* PingReqs, to distinct registry nodes that are not this node, not T and
\* not Dead when it selects them, and to no more of them than
\* pingRequestCount(); getTargetNodes never returns more nodes than the
\* count it is given; with no such node it writes nothing and T is Dead
\* after it.
C21_PingReqTargets ==
    /\ [][last'.op = "forward"
          => LET T == last'.node
                 eligible == {a \in knownNodes \ {thisHost, T} :
                                 nodes[a].status # StatusDead}
             IN  /\ \A i \in DOMAIN sent' :
                       /\ sent'[i].verb = verbPingRequest
                       /\ sent'[i].to \in eligible
                       /\ \A j \in DOMAIN sent' :
                             sent'[j].to = sent'[i].to => j = i
                 /\ Len(sent') <= pingRequestCount(Cur)
                 /\ eligible = {} => /\ sent' = <<>>
                                     /\ nodes'[T].status = StatusDead]_vars
    /\ [](\A T \in Peers, count \in 0..NumAddr :
             \A relays \in getTargetNodes(Cur, count, {thisHost, T}) :
                /\ Len(relays) <= count
                /\ \A i \in DOMAIN relays :
                      /\ relays[i] \in knownNodes \ {thisHost, T}
                      /\ nodes[relays[i]].status # StatusDead)

\* PingReqs went out for a timed-out Ping while another peer was Dead
C21_Witness ==
    /\ last.op = "forward" /\ sent # <<>>
    /\ \E a \in knownNodes \ {thisHost, last.node} :
          nodes[a].status = StatusDead

\* C22: a pending-ack entry leaves the table only through the ACK handler
\* for its key or through the timeout checker finding it timed out, never
\* by being replaced; the timeout checker's step for an entry removes it and
\* takes the action of its kind: a Ping starts the PingReq fan-out for its
\* node, a PingReq leaves its callback Dead, an NFP leaves its node Dead.
C22_EntriesResolvedByAckOrTimeout ==
    [][\A key \in DOMAIN pendingAcks :
          /\ (\/ key \notin DOMAIN pendingAcks'
              \/ pendingAcks'[key] # pendingAcks[key])
             => Acked(key) \/ TimedOut(key)
          /\ TimedOut(key)
             => /\ key \notin DOMAIN pendingAcks'
                /\ pendingAcks[key].packType = packPing
                      => pendingAcks[key].node \in forwards'
                /\ pendingAcks[key].packType = packPingReq
                      => nodes'[pendingAcks[key].callback].status = StatusDead
                /\ pendingAcks[key].packType = packNFP
                      => nodes'[pendingAcks[key].node].status = StatusDead]_vars

\* C24: no step lowers currentHeartbeat, whichever way the Begin loop's
\* "currentHeartbeat++" and the handlers' heartbeat synchronisation
\* interleave, and a Ping of the Begin loop carries a heartbeat above that of
\* every Ping to the same peer still pending, so it takes no pending-ack key
\* of an earlier Ping.
C24_HeartbeatMonotoneUnderRace ==
    [][/\ currentHeartbeat' >= currentHeartbeat
       /\ last'.op = "store"
          => \A key \in DOMAIN pendingAcks :
                (key[1] = last'.node /\ pendingAcks[key].packType = packPing)
                => key[2] < last'.code]_vars

\* the step just taken is the Lock part of the ACK handler for `key`
Locked(key) ==
    last'.op = "locked" /\ last'.node = key[1] /\ last'.code = key[2]

\* C23: with the timeout checker and other ACK handlers running between an
\* ACK handler's first look at the table and its Lock, the handler acts only
\* on an entry that is in the table under the Lock and removes it in the same
\* step (an Ack to the callback, or one RTT sample); when the entry is gone
\* it writes nothing, records nothing and changes no node; the timeout
\* checker removes the entry in the step that takes its action: no entry is
\* there for a second action.
C23_EntryResolvedAtMostOnce ==
    [][\A key \in Keys :
          /\ Locked(key)
             => IF key \in DOMAIN pendingAcks
                THEN /\ key \notin DOMAIN pendingAcks'
                     /\ IF pendingAcks[key].callback # NoNode
                        THEN /\ Len(sent') = 1 /\ sent'[1].verb = verbAck
                             /\ sent'[1].to = pendingAcks[key].callback
                             /\ pingdata' = 0
                        ELSE sent' = <<>> /\ pingdata' = 1
                ELSE /\ sent' = <<>> /\ pingdata' = 0
                     /\ pendingAcks' = pendingAcks
                     /\ nodes' = nodes /\ forwards' = forwards
          /\ TimedOut(key) => key \notin DOMAIN pendingAcks'
          /\ (sent' # <<>> \/ pingdata' > 0 \/ forwards' # forwards)
             /\ last'.code = key[2] /\ last'.node = key[1]
             /\ last'.op \in {"locked", "timeout"}
             => key \in DOMAIN pendingAcks /\ key \notin DOMAIN pendingAcks']_vars

\* an ACK handler got the Lock after the timeout checker had taken its entry
\* and turned a node Dead, and did nothing
C23_Witness ==
    /\ last.op = "locked" /\ last.verb = ""
    /\ acking = <<>> /\ pendingAcks = <<>>
    /\ \E a \in knownNodes : /\ nodes[a].status = StatusDead
                             /\ nodes[a].pingMillis = PingTimedOut

====
